---- MODULE Spec2Model ----
(***************************************************************************)
(* A model of the farmit backend: AuthService (src/src/auth/auth.service.ts) *)
(* and FarmService (src/src/farm/farm.service.ts) over the Prisma schema     *)
(* (src/unnamed/part_000).                                                   *)
(*                                                                           *)
(* Each request runs in a slot p of Procs.  A handler is cut at its awaits   *)
(* on the database: one action per database operation (with the local code   *)
(* that follows it up to the next await on the database or the return), so   *)
(* that requests interleave exactly where the node event loop lets them.     *)
(* Hashing and signing touch no shared state and stay inside a step.         *)
(***************************************************************************)
EXTENDS Integers, Sequences, FiniteSets, TLC

\* ---------------------------------------------------------------- bounds
\* Requests served in one behaviour.
MaxCalls == 4

\* Request slots: requests in flight at the same time.
Procs == {1, 2}

\* Inputs.
Emails == {"a@x.com", "b@x.com"}
Usernames == {"alice", "bob"}
Passwords == {"pw1", "pw2"}
\* Passwords chosen at registration; login and resetPassword draw from
\* Passwords, so a stored password is matched, missed and replaced.
RegisterPasswords == {"pw1"}
\* Outcomes of randomBytes(3).toString('hex').
Tokens == {"0a1b2c", "ffffff"}
\* Farm payloads: the dto's fields are copied to the row verbatim, two of
\* them are kept.
Dtos == {[name |-> "North Field", size |-> 10],
         [name |-> "South Field", size |-> 20]}

\* A nullable column that holds null.
NULL == "null"

VARIABLES
    users,      \* the User collection: a sequence, a user's id is its index
    farms,      \* the Farm collection: a set of rows
    nextFarmId, \* the next auto-generated Farm id
    events,     \* what EventEmitter2.emit was called with, in order
    pc,         \* per request slot: where the handler stands, and its locals
    ret,        \* the response (or the exception) of the request that ended last
    ncalls      \* requests received so far

vars == <<users, farms, nextFarmId, events, pc, ret, ncalls>>

\* ------------------------------------------------------------ the schema
User(id, email, username, passwordhash) ==
    [id |-> id, email |-> email, username |-> username,
     passwordhash |-> passwordhash, verified |-> FALSE,
     token |-> NULL, resetToken |-> NULL]

\* Mutant: username is not declared @unique.
UniqueViolation_EmailOnly(email, username) ==
    \E i \in DOMAIN users : users[i].email = email

\* The unique indexes of model User: true when a new row would break one.
UniqueViolation(email, username) ==
    \E i \in DOMAIN users :
        users[i].email = email \/ users[i].username = username

\* argon.hash: the hash of a password (the salt plays no part in what
\* argon.verify answers).
Hash(password) == <<"argon2", password>>

\* Mutant: argon.verify is not awaited, and the pending promise is truthy.
Verify_NotAwaited(passwordhash, password) == TRUE

\* argon.hash / argon.verify: a hash verifies exactly the password it was
\* made from.
Verify(passwordhash, password) == passwordhash = Hash(password)

\* prisma.user.findUnique({where: {email}}): <<>> is null.
FindUniqueUser(email) ==
    IF \E i \in DOMAIN users : users[i].email = email
    THEN <<users[CHOOSE i \in DOMAIN users : users[i].email = email]>>
    ELSE <<>>

\* select: {email: true, username: true}: the fields of the row a handler
\* still reads after its checks.
Select(user) == [email |-> user.email, username |-> user.username]

\* prisma.user.update({where: {email}, data}): the rows after the write.
UpdateUser(email, field, value) ==
    [i \in DOMAIN users |->
        IF users[i].email = email
        THEN [users[i] EXCEPT ![field] = value]
        ELSE users[i]]

\* prisma.farm.findMany({where: {farmerId}}).
FindManyFarms(userid) == {f \in farms : f.farmerId = userid}

\* prisma.farm.findUnique / update / delete ({where: {id, farmerId}}): the
\* rows the compound filter selects.
FindUniqueFarm(userid, farmid) ==
    {f \in farms : f.id = farmid /\ f.farmerId = userid}

\* ------------------------------------------------------------- responses
Idle == [at |-> "idle"]

Response(op, args, message, statusCode, data) ==
    [op |-> op, args |-> args, kind |-> "ok", thrown |-> "none",
     message |-> message, statusCode |-> statusCode, data |-> data,
     access_token |-> <<>>]

\* An exception leaving the handler: kind is the class the catch block
\* throws, thrown the class raised inside the try block.
Exception(op, args, kind, thrown, message, statusCode) ==
    [op |-> op, args |-> args, kind |-> kind, thrown |-> thrown,
     message |-> message, statusCode |-> statusCode, data |-> <<>>,
     access_token |-> <<>>]

\* jwt.signAsync({sub, email}, ...).
SignAsync(sub, email) == <<"jwt", sub, email>>

Accept(p) == pc[p].at = "idle" /\ ncalls < MaxCalls

Init ==
    /\ users = <<>>
    /\ farms = {}
    /\ nextFarmId = 1
    /\ events = <<>>
    /\ pc = [p \in Procs |-> Idle]
    /\ ret = [op |-> "none", args |-> <<>>, kind |-> "none",
              thrown |-> "none", message |-> "", statusCode |-> 0,
              data |-> <<>>, access_token |-> <<>>]
    /\ ncalls = 0

\* ---------------------------------------------------------- AuthService
\* register: hash, then prisma.user.create; a broken unique index throws
\* and the catch block rethrows InternalServerErrorException.
RegisterCreate(p, dto) ==
    /\ Accept(p)
    /\ ncalls' = ncalls + 1
    /\ IF UniqueViolation(dto.email, dto.username)
       THEN /\ ret' = Exception("register", dto, "InternalServerError",
                                "P2002", "Registration failed.", 500)
            /\ UNCHANGED <<users, pc>>
       ELSE /\ users' = Append(users, User(Len(users) + 1, dto.email,
                                            dto.username, Hash(dto.password)))
            /\ pc' = [pc EXCEPT ![p] = [at |-> "register_emit", dto |-> dto]]
            /\ UNCHANGED ret
    /\ UNCHANGED <<farms, nextFarmId, events>>

\* register, after the create: emit 'welcome-email' and return.
RegisterEmit(p) ==
    /\ pc[p].at = "register_emit"
    /\ LET dto == pc[p].dto IN
       /\ events' = Append(events,
              [name |-> "welcome-email",
               payload |-> [to |-> dto.email, data |-> [name |-> dto.username]]])
       /\ ret' = Response("register", dto, "User registered.", 201,
                          <<[email |-> dto.email, username |-> dto.username]>>)
    /\ pc' = [pc EXCEPT ![p] = Idle]
    /\ UNCHANGED <<users, farms, nextFarmId, ncalls>>

\* Mutant: login does not test user.verified and signs a token at once.
LoginFind_NoVerifiedTest(p, dto) ==
    /\ Accept(p)
    /\ ncalls' = ncalls + 1
    /\ LET user == FindUniqueUser(dto.email) IN
       IF user = <<>>
       THEN ret' = Exception("login", dto, "Unauthorized", "TypeError",
                             "Login failed, try again.", 401)
       ELSE IF ~Verify(user[1].passwordhash, dto.password)
       THEN ret' = Exception("login", dto, "Unauthorized", "Unauthorized",
                             "Login failed, try again.", 401)
       ELSE ret' = [Response("login", dto, "", 0, <<>>)
                       EXCEPT !.access_token =
                                  SignAsync(user[1].id, user[1].email)]
    /\ UNCHANGED <<users, farms, nextFarmId, events, pc>>

\* login, up to the first write: findUnique, argon.verify, the verified
\* test and, for a verified user, the signed token.  A null user makes
\* user.passwordhash throw a TypeError; the catch block turns every
\* exception into UnauthorizedException('Login failed, try again.').
LoginFind(p, dto) ==
    /\ Accept(p)
    /\ ncalls' = ncalls + 1
    /\ LET user == FindUniqueUser(dto.email) IN
       IF user = <<>>
       THEN /\ ret' = Exception("login", dto, "Unauthorized", "TypeError",
                                "Login failed, try again.", 401)
            /\ UNCHANGED pc
       ELSE IF ~Verify(user[1].passwordhash, dto.password)
       THEN /\ ret' = Exception("login", dto, "Unauthorized", "Unauthorized",
                                "Login failed, try again.", 401)
            /\ UNCHANGED pc
       ELSE IF ~user[1].verified
       THEN /\ \E verificationToken \in Tokens :
                pc' = [pc EXCEPT ![p] = [at |-> "login_update", dto |-> dto,
                                         user |-> Select(user[1]),
                                         token |-> verificationToken]]
            /\ UNCHANGED ret
       ELSE /\ ret' = [Response("login", dto, "", 0, <<>>)
                          EXCEPT !.access_token =
                                     SignAsync(user[1].id, user[1].email)]
            /\ UNCHANGED pc
    /\ UNCHANGED <<users, farms, nextFarmId, events>>

\* login of an unverified user: prisma.user.update({data: {token}}).
LoginUpdate(p) ==
    /\ pc[p].at = "login_update"
    /\ users' = UpdateUser(pc[p].user.email, "token", pc[p].token)
    /\ pc' = [pc EXCEPT ![p].at = "login_emit"]
    /\ UNCHANGED <<farms, nextFarmId, events, ret, ncalls>>

\* Mutant: the event carries a second randomDigits() instead of the token
\* that was stored.
LoginEmit_FreshToken(p) ==
    /\ pc[p].at = "login_emit"
    /\ \E fresh \in Tokens :
           events' = Append(events,
               [name |-> "send-verification",
                payload |-> [to |-> pc[p].user.email,
                             data |-> [name |-> pc[p].user.username,
                                       token |-> fresh]]])
    /\ ret' = Response("login", pc[p].dto, "Please verify your account",
                       200, <<>>)
    /\ pc' = [pc EXCEPT ![p] = Idle]
    /\ UNCHANGED <<users, farms, nextFarmId, ncalls>>

\* login of an unverified user, after the update: emit 'send-verification'
\* and return the "please verify" envelope.
LoginEmit(p) ==
    /\ pc[p].at = "login_emit"
    /\ events' = Append(events,
           [name |-> "send-verification",
            payload |-> [to |-> pc[p].user.email,
                         data |-> [name |-> pc[p].user.username,
                                   token |-> pc[p].token]]])
    /\ ret' = Response("login", pc[p].dto, "Please verify your account",
                       200, <<>>)
    /\ pc' = [pc EXCEPT ![p] = Idle]
    /\ UNCHANGED <<users, farms, nextFarmId, ncalls>>

\* forgotPassword, up to the write: getUserByEmail throws NotFoundException
\* for a null user, its own catch rethrows InternalServerErrorException and
\* forgotPassword's catch rethrows InternalServerErrorException again.
ForgotFind(p, dto) ==
    /\ Accept(p)
    /\ ncalls' = ncalls + 1
    /\ LET user == FindUniqueUser(dto.email) IN
       IF user = <<>>
       THEN /\ ret' = Exception("forgotPassword", dto, "InternalServerError",
                                "NotFound", "Retrieving password failed.", 500)
            /\ UNCHANGED pc
       ELSE /\ \E resetToken \in Tokens :
                pc' = [pc EXCEPT ![p] = [at |-> "forgot_update", dto |-> dto,
                                         user |-> Select(user[1]),
                                         token |-> resetToken]]
            /\ UNCHANGED ret
    /\ UNCHANGED <<users, farms, nextFarmId, events>>

\* forgotPassword: prisma.user.update({data: {resetToken}}).
ForgotUpdate(p) ==
    /\ pc[p].at = "forgot_update"
    /\ users' = UpdateUser(pc[p].user.email, "resetToken", pc[p].token)
    /\ pc' = [pc EXCEPT ![p].at = "forgot_emit"]
    /\ UNCHANGED <<farms, nextFarmId, events, ret, ncalls>>

\* forgotPassword, after the update: emit 'send-reset-token' with the
\* object {resetToken} and return.
ForgotEmit(p) ==
    /\ pc[p].at = "forgot_emit"
    /\ events' = Append(events,
           [name |-> "send-reset-token",
            payload |-> [resetToken |-> pc[p].token]])
    /\ ret' = Response("forgotPassword", pc[p].dto,
                       "Reset token has been sent to your email", 200, <<>>)
    /\ pc' = [pc EXCEPT ![p] = Idle]
    /\ UNCHANGED <<users, farms, nextFarmId, ncalls>>

\* verifyToken, up to the write: findUnique and the comparison
\* token === user.token.  NotFoundException and BadRequestException are
\* raised inside the try block, whose catch rethrows
\* InternalServerErrorException('Token could not be verified.').
VerifyFind(p, email, token) ==
    /\ Accept(p)
    /\ ncalls' = ncalls + 1
    /\ LET user == FindUniqueUser(email)
           args == [email |-> email, token |-> token] IN
       IF user = <<>>
       THEN /\ ret' = Exception("verifyToken", args, "InternalServerError",
                                "NotFound", "Token could not be verified.", 500)
            /\ UNCHANGED pc
       ELSE IF token # user[1].token
       THEN /\ ret' = Exception("verifyToken", args, "InternalServerError",
                                "BadRequest", "Token could not be verified.", 500)
            /\ UNCHANGED pc
       ELSE /\ pc' = [pc EXCEPT ![p] = [at |-> "verify_update", args |-> args]]
            /\ UNCHANGED ret
    /\ UNCHANGED <<users, farms, nextFarmId, events>>

\* Mutant: the update's filter selects no row, verified is not written.
VerifyUpdate_NoWrite(p) ==
    /\ pc[p].at = "verify_update"
    /\ ret' = Response("verifyToken", pc[p].args, "Valid Token", 200, <<>>)
    /\ pc' = [pc EXCEPT ![p] = Idle]
    /\ UNCHANGED <<users, farms, nextFarmId, events, ncalls>>

\* verifyToken: prisma.user.update({data: {verified: true}}) and return.
VerifyUpdate(p) ==
    /\ pc[p].at = "verify_update"
    /\ users' = UpdateUser(pc[p].args.email, "verified", TRUE)
    /\ ret' = Response("verifyToken", pc[p].args, "Valid Token", 200, <<>>)
    /\ pc' = [pc EXCEPT ![p] = Idle]
    /\ UNCHANGED <<farms, nextFarmId, events, ncalls>>

\* Mutant: resetPassword refuses a user who holds no reset token.
ResetPassword_ChecksResetToken(p, dto) ==
    /\ Accept(p)
    /\ ncalls' = ncalls + 1
    /\ LET user == FindUniqueUser(dto.email) IN
       IF user = <<>> \/ user[1].resetToken = NULL
       THEN /\ ret' = Exception("resetPassword", dto, "InternalServerError",
                                "P2025", "Password could not be reset.", 500)
            /\ UNCHANGED users
       ELSE /\ users' = UpdateUser(dto.email, "passwordhash",
                                   Hash(dto.newPassword))
            /\ ret' = Response("resetPassword", dto,
                               "Password Reset successfully.", 200, <<>>)
    /\ UNCHANGED <<farms, nextFarmId, events, pc>>

\* resetPassword: hash, then prisma.user.update({where: {email},
\* data: {passwordhash}}), which throws when no row has the email.
ResetPassword(p, dto) ==
    /\ Accept(p)
    /\ ncalls' = ncalls + 1
    /\ IF FindUniqueUser(dto.email) = <<>>
       THEN /\ ret' = Exception("resetPassword", dto, "InternalServerError",
                                "P2025", "Password could not be reset.", 500)
            /\ UNCHANGED users
       ELSE /\ users' = UpdateUser(dto.email, "passwordhash",
                                   Hash(dto.newPassword))
            /\ ret' = Response("resetPassword", dto,
                               "Password Reset successfully.", 200, <<>>)
    /\ UNCHANGED <<farms, nextFarmId, events, pc>>

\* ---------------------------------------------------------- FarmService
\* The caller of FarmService is a registered user: userid is the sub claim
\* of a session token.
Farm(id, farmerId, dto) ==
    [id |-> id, farmerId |-> farmerId, name |-> dto.name, size |-> dto.size]

\* Mutant: the farm is created without its owner, whom only the link sets.
CreateFarmCreate_NoOwner(p, userid, dto) ==
    /\ Accept(p)
    /\ ncalls' = ncalls + 1
    /\ farms' = farms \cup {Farm(nextFarmId, 0, dto)}
    /\ nextFarmId' = nextFarmId + 1
    /\ pc' = [pc EXCEPT ![p] = [at |-> "createFarm_link", userid |-> userid,
                                 dto |-> dto,
                                 newFarm |-> Farm(nextFarmId, 0, dto)]]
    /\ UNCHANGED <<users, events, ret>>

\* createFarm, first write: prisma.farm.create({data: {farmerId: userid, ...}}).
CreateFarmCreate(p, userid, dto) ==
    /\ Accept(p)
    /\ ncalls' = ncalls + 1
    /\ farms' = farms \cup {Farm(nextFarmId, userid, dto)}
    /\ nextFarmId' = nextFarmId + 1
    /\ pc' = [pc EXCEPT ![p] = [at |-> "createFarm_link", userid |-> userid,
                                 dto |-> dto,
                                 newFarm |-> Farm(nextFarmId, userid, dto)]]
    /\ UNCHANGED <<users, events, ret>>

\* createFarm, second write: prisma.user.update({where: {id: userid}, data:
\* {farms: {connect: {id: newFarm.id}}}}).  The relation User.farms is held
\* by Farm.farmerId (schema, model Farm), so connect writes userid to the
\* farm's farmerId; it throws when the user or the farm is gone.
CreateFarmLink(p) ==
    /\ pc[p].at = "createFarm_link"
    /\ LET userid == pc[p].userid
           newFarm == pc[p].newFarm IN
       IF userid \in DOMAIN users /\ \E f \in farms : f.id = newFarm.id
       THEN /\ farms' = {IF f.id = newFarm.id
                         THEN [f EXCEPT !.farmerId = userid]
                         ELSE f : f \in farms}
            /\ ret' = Response("createFarm",
                               [userid |-> userid, dto |-> pc[p].dto],
                               "Farm created", 201, <<newFarm>>)
       ELSE /\ ret' = Exception("createFarm",
                                [userid |-> userid, dto |-> pc[p].dto],
                                "InternalServerError", "P2025",
                                "Farm could not be added.", 500)
            /\ UNCHANGED farms
    /\ pc' = [pc EXCEPT ![p] = Idle]
    /\ UNCHANGED <<users, nextFarmId, events, ncalls>>

\* createFarm, the second write fails (the database is unreachable, the
\* process stops): nothing undoes the first write.
CreateFarmFail(p) ==
    /\ pc[p].at = "createFarm_link"
    /\ ret' = Exception("createFarm",
                        [userid |-> pc[p].userid, dto |-> pc[p].dto],
                        "InternalServerError", "PrismaClientError",
                        "Farm could not be added.", 500)
    /\ pc' = [pc EXCEPT ![p] = Idle]
    /\ UNCHANGED <<users, farms, nextFarmId, events, ncalls>>

\* getFarms: findMany returns an array, which is never falsy.
GetFarms(p, userid) ==
    /\ Accept(p)
    /\ ncalls' = ncalls + 1
    /\ ret' = Response("getFarms", [userid |-> userid],
                       "Farms retrieved.", 200, <<FindManyFarms(userid)>>)
    /\ UNCHANGED <<users, farms, nextFarmId, events, pc>>

\* getById: NotFoundException is raised inside the try block, whose catch
\* rethrows InternalServerErrorException('Farm could not be retrieved').
GetById(p, userid, farmid) ==
    /\ Accept(p)
    /\ ncalls' = ncalls + 1
    /\ LET farm == FindUniqueFarm(userid, farmid)
           args == [userid |-> userid, farmid |-> farmid] IN
       IF farm = {}
       THEN ret' = Exception("getById", args, "InternalServerError",
                             "NotFound", "Farm could not be retrieved", 500)
       ELSE ret' = Response("getById", args, "Farm retrieved successfully",
                            200, <<CHOOSE f \in farm : TRUE>>)
    /\ UNCHANGED <<users, farms, nextFarmId, events, pc>>

\* updateFarm: prisma.farm.update throws when the filter selects no row.
UpdateFarm(p, userid, farmid, dto) ==
    /\ Accept(p)
    /\ ncalls' = ncalls + 1
    /\ LET farm == FindUniqueFarm(userid, farmid)
           args == [userid |-> userid, farmid |-> farmid, dto |-> dto] IN
       IF farm = {}
       THEN /\ ret' = Exception("updateFarm", args, "InternalServerError",
                                "P2025", "Farm could not be updated.", 500)
            /\ UNCHANGED farms
       ELSE /\ farms' = (farms \ farm) \cup {Farm(farmid, userid, dto)}
            /\ ret' = Response("updateFarm", args,
                               "Farm updated successfully", 200,
                               <<Farm(farmid, userid, dto)>>)
    /\ UNCHANGED <<users, nextFarmId, events, pc>>

\* deleteFarm: prisma.farm.delete throws when the filter selects no row.
DeleteFarm(p, userid, farmid) ==
    /\ Accept(p)
    /\ ncalls' = ncalls + 1
    /\ LET farm == FindUniqueFarm(userid, farmid)
           args == [userid |-> userid, farmid |-> farmid] IN
       IF farm = {}
       THEN /\ ret' = Exception("deleteFarm", args, "InternalServerError",
                                "P2025", "Farm could not be deleted.", 500)
            /\ UNCHANGED farms
       ELSE /\ farms' = farms \ farm
            /\ ret' = Response("deleteFarm", args,
                               "Farm deleted successfully", 200, <<>>)
    /\ UNCHANGED <<users, nextFarmId, events, pc>>

\* ------------------------------------------------------- specification
RegisterDtos ==
    [email : Emails, username : Usernames, password : RegisterPasswords]
LoginDtos == [email : Emails, password : Passwords]
ForgotPasswordDtos == [email : Emails]
ResetPasswordDtos == [email : Emails, newPassword : Passwords]

\* The two services share nothing but the User collection: AuthService's
\* requests alone, and FarmService's requests with the registrations that
\* give them their callers.
NextAuth ==
    \E p \in Procs :
        \/ \E dto \in RegisterDtos : RegisterCreate(p, dto)
        \/ RegisterEmit(p)
        \/ \E dto \in LoginDtos : LoginFind(p, dto)
        \/ LoginUpdate(p)
        \/ LoginEmit(p)
        \/ \E dto \in ForgotPasswordDtos : ForgotFind(p, dto)
        \/ ForgotUpdate(p)
        \/ ForgotEmit(p)
        \/ \E email \in Emails, token \in Tokens : VerifyFind(p, email, token)
        \/ VerifyUpdate(p)
        \/ \E dto \in ResetPasswordDtos : ResetPassword(p, dto)

AuthSpec == Init /\ [][NextAuth]_vars

NextFarm ==
    \E p \in Procs :
        \/ \E dto \in RegisterDtos : RegisterCreate(p, dto)
        \/ RegisterEmit(p)
        \/ \E userid \in DOMAIN users, dto \in Dtos :
               CreateFarmCreate(p, userid, dto)
        \/ CreateFarmLink(p)
        \/ CreateFarmFail(p)
        \/ \E userid \in DOMAIN users : GetFarms(p, userid)
        \/ \E userid \in DOMAIN users, farmid \in 1..nextFarmId :
               GetById(p, userid, farmid)
        \/ \E userid \in DOMAIN users, farmid \in 1..nextFarmId, dto \in Dtos :
               UpdateFarm(p, userid, farmid, dto)
        \/ \E userid \in DOMAIN users, farmid \in 1..nextFarmId :
               DeleteFarm(p, userid, farmid)

FarmSpec == Init /\ [][NextFarm]_vars

\* ------------------------------------------------------------ vocabulary
\* A request received and answered in one step (ret' is its response).
SingleStep(op) == ncalls' = ncalls + 1 /\ pc' = pc /\ ret'.op = op

\* Slot p moves from one place of its handler to another.
Moved(p, from, to) == pc[p].at = from /\ pc'[p].at = to

LastEvent == events[Len(events)]

\* The row with the email in a User collection, <<>> when there is none.
RowOf(rows, email) ==
    IF \E i \in DOMAIN rows : rows[i].email = email
    THEN <<rows[CHOOSE i \in DOMAIN rows : rows[i].email = email]>>
    ELSE <<>>

\* The 'send-verification' events emitted for a user, oldest first.
VerificationEvents(email) ==
    SelectSeq(events, LAMBDA ev : /\ ev.name = "send-verification"
                                  /\ ev.payload.to = email)

LoginInFlight(email) ==
    \E p \in Procs : /\ pc[p].at \in {"login_update", "login_emit"}
                     /\ pc[p].user.email = email

\* ------------------------------------------------------------------- C1
\* C1: a login of an unverified user with the correct password is never
\* answered in the step that reads the user (so never with an access_token);
\* it writes its freshly generated token to the user's row, then emits one
\* 'send-verification' event carrying that token and returns the envelope
\* 'Please verify your account' with statusCode 200 and no access_token.
C1_UnverifiedLogin ==
    /\ [][SingleStep("login") =>
            LET user == FindUniqueUser(ret'.args.email) IN
            ~(/\ user # <<>>
              /\ ~user[1].verified
              /\ user[1].passwordhash = Hash(ret'.args.password))]_vars
    /\ [][\A p \in Procs :
            /\ Moved(p, "idle", "login_update") =>
                 LET user == FindUniqueUser(pc'[p].dto.email) IN
                 /\ user # <<>> /\ ~user[1].verified
                 /\ pc'[p].token \in Tokens
            /\ Moved(p, "login_update", "login_emit") =>
                 /\ RowOf(users', pc[p].dto.email)[1].token = pc[p].token
                 /\ events' = events
            /\ Moved(p, "login_emit", "idle") =>
                 /\ ret'.op = "login"
                 /\ ret'.message = "Please verify your account"
                 /\ ret'.statusCode = 200
                 /\ ret'.access_token = <<>>
                 /\ events' = Append(events,
                        [name |-> "send-verification",
                         payload |-> [to |-> pc[p].dto.email,
                                      data |-> [name |-> pc[p].user.username,
                                                token |-> pc[p].token]]])
                 /\ users' = users]_vars

\* C1 witness: an unverified user's login has returned the envelope, the
\* event it emitted carries the token now stored on the user.
C1_Witness ==
    /\ ret.op = "login"
    /\ ret.message = "Please verify your account"
    /\ events # <<>>
    /\ LastEvent.name = "send-verification"
    /\ LastEvent.payload.to = ret.args.email
    /\ LET user == FindUniqueUser(ret.args.email) IN
       /\ ~user[1].verified
       /\ user[1].token = LastEvent.payload.data.token

\* ------------------------------------------------------------------- C2
\* C2 (as claimed): verifyToken for an existing user succeeds and sets
\* verified when the submitted token is the stored one; with any other
\* token it fails with the BadRequest kind and changes no user row.
C2_VerifyToken_Claimed ==
    /\ [][SingleStep("verifyToken") =>
            LET user == FindUniqueUser(ret'.args.email) IN
            user # <<>> =>
                /\ ret'.args.token # user[1].token
                /\ ret'.kind = "BadRequest"
                /\ users' = users]_vars
    /\ [][\A p \in Procs :
            Moved(p, "verify_update", "idle") =>
                /\ ret'.op = "verifyToken" /\ ret'.kind = "ok"
                /\ RowOf(users', pc[p].args.email)[1].verified]_vars

\* C2, what the code does hold to: the same statement with the kind the
\* catch block lets out, InternalServerError.
C2_VerifyToken_AsCoded ==
    /\ [][SingleStep("verifyToken") =>
            LET user == FindUniqueUser(ret'.args.email) IN
            user # <<>> =>
                /\ ret'.args.token # user[1].token
                /\ ret'.kind = "InternalServerError"
                /\ ret'.thrown = "BadRequest"
                /\ users' = users]_vars
    /\ [][\A p \in Procs :
            Moved(p, "verify_update", "idle") =>
                /\ ret'.op = "verifyToken" /\ ret'.kind = "ok"
                /\ RowOf(users', pc[p].args.email)[1].verified]_vars

\* ------------------------------------------------------------------- C4
\* C4: no two users share an email or a username; a register whose email
\* or username is taken is answered with an error in the step of its
\* create, which adds no row, changes no row and emits nothing; a register
\* that does create a row found neither taken.
C4_UniqueUsers ==
    /\ [](\A i, j \in DOMAIN users :
            i # j => /\ users[i].email # users[j].email
                     /\ users[i].username # users[j].username)
    /\ [][SingleStep("register") =>
            /\ ret'.kind = "InternalServerError"
            /\ users' = users
            /\ events' = events]_vars
    /\ [][\A p \in Procs :
            Moved(p, "idle", "register_emit") =>
                /\ \A i \in DOMAIN users :
                      /\ users[i].email # pc'[p].dto.email
                      /\ users[i].username # pc'[p].dto.username
                /\ Len(users') = Len(users) + 1
                /\ \A i \in DOMAIN users : users'[i] = users[i]]_vars

\* C4 witness: while one register stands between its create and its emit,
\* a second register with the same email and another username has failed,
\* and the collection holds the one row.
C4_Witness ==
    \E p \in Procs :
        /\ pc[p].at = "register_emit"
        /\ ret.op = "register"
        /\ ret.kind = "InternalServerError"
        /\ ret.args.email = pc[p].dto.email
        /\ ret.args.username # pc[p].dto.username
        /\ Len(users) = 1
        /\ events = <<>>

\* ------------------------------------------------------------------- C5
\* C5: a login returns an access_token only for a user who is verified when
\* the login reads it and whose stored hash matches the password, and then
\* the token is not empty; a login of a verified user with the matching
\* password returns one; verifyToken with the stored token is not refused
\* and its write sets verified.  So register, login, verifyToken(token of
\* that login), login answers 'Please verify your account', success, and an
\* access_token.
C5_LoginAfterVerify ==
    /\ [][SingleStep("login") =>
            LET user == FindUniqueUser(ret'.args.email)
                entitled == /\ user # <<>>
                            /\ user[1].verified
                            /\ user[1].passwordhash = Hash(ret'.args.password)
            IN  /\ ret'.access_token # <<>> <=> entitled
                /\ entitled => ret'.kind = "ok"]_vars
    /\ [][\A p \in Procs :
            /\ Moved(p, "login_emit", "idle") =>
                 /\ ret'.access_token = <<>>
                 /\ ret'.message = "Please verify your account"
                 /\ ret'.statusCode = 200
            /\ Moved(p, "idle", "login_update") =>
                 ~FindUniqueUser(pc'[p].dto.email)[1].verified]_vars
    /\ [][SingleStep("verifyToken") =>
            LET user == FindUniqueUser(ret'.args.email) IN
            user = <<>> \/ ret'.args.token # user[1].token]_vars
    /\ [][\A p \in Procs :
            Moved(p, "verify_update", "idle") =>
                /\ ret'.kind = "ok"
                /\ RowOf(users', pc[p].args.email)[1].verified]_vars

\* C5 witness: the end of register, login, verifyToken, login by one user:
\* four requests, one user, one 'send-verification' event whose token is
\* the stored one, and an access_token in the last response.
C5_Witness ==
    /\ ncalls = 4
    /\ Len(users) = 1
    /\ users[1].verified
    /\ Len(VerificationEvents(users[1].email)) = 1
    /\ VerificationEvents(users[1].email)[1].payload.data.token = users[1].token
    /\ ret.op = "login"
    /\ ret.args.email = users[1].email
    /\ ret.access_token # <<>>

\* ------------------------------------------------------------------- C6
\* C6: a login whose email no user has, or whose password the stored hash
\* does not match, is answered in the step that reads the user with the
\* Unauthorized kind and no access_token, and that step changes no user
\* row and emits nothing; a login that goes on to write a token had a user
\* and a matching password.
C6_LoginRefused ==
    /\ [][SingleStep("login") =>
            LET user == FindUniqueUser(ret'.args.email) IN
            (user = <<>> \/ user[1].passwordhash # Hash(ret'.args.password)) =>
                /\ ret'.kind = "Unauthorized"
                /\ ret'.access_token = <<>>
                /\ users' = users
                /\ events' = events]_vars
    /\ [][\A p \in Procs :
            Moved(p, "idle", "login_update") =>
                LET user == FindUniqueUser(pc'[p].dto.email) IN
                /\ user # <<>>
                /\ user[1].passwordhash = Hash(pc'[p].dto.password)
                /\ users' = users]_vars

\* C6 witness: a verified user's login with a password that does not match
\* has been refused.
C6_Witness ==
    /\ ret.op = "login"
    /\ ret.kind = "Unauthorized"
    /\ LET user == FindUniqueUser(ret.args.email) IN
       /\ user # <<>>
       /\ user[1].verified
       /\ user[1].passwordhash # Hash(ret.args.password)

\* ------------------------------------------------------------------- C7
\* C7 (as claimed): every event the auth workflow emits ('welcome-email',
\* 'send-verification', 'send-reset-token') carries in "to" the address of
\* the user the request acted on, and an event with a token carries the
\* token the request has just written to that user's row.
C7_EventsAddressed_Claimed ==
    [][\A p \in Procs :
        /\ Moved(p, "register_emit", "idle") =>
             /\ Len(events') = Len(events) + 1
             /\ "to" \in DOMAIN LastEvent'.payload
             /\ LastEvent'.payload.to = pc[p].dto.email
        /\ Moved(p, "login_emit", "idle") =>
             /\ Len(events') = Len(events) + 1
             /\ "to" \in DOMAIN LastEvent'.payload
             /\ LastEvent'.payload.to = pc[p].user.email
             /\ LastEvent'.payload.data.token = pc[p].token
        /\ Moved(p, "forgot_emit", "idle") =>
             /\ Len(events') = Len(events) + 1
             /\ "to" \in DOMAIN LastEvent'.payload
             /\ LastEvent'.payload.to = pc[p].user.email
             /\ LastEvent'.payload.data.token = pc[p].token]_vars

\* C7, what the code does hold to: 'welcome-email' and 'send-verification'
\* are addressed; 'send-reset-token' carries the object {resetToken} alone,
\* whose token is the one the request wrote.
C7_EventsAddressed_AsCoded ==
    /\ [][\A p \in Procs :
            /\ Moved(p, "register_emit", "idle") =>
                 /\ Len(events') = Len(events) + 1
                 /\ LastEvent'.payload.to = pc[p].dto.email
            /\ Moved(p, "login_emit", "idle") =>
                 /\ Len(events') = Len(events) + 1
                 /\ LastEvent'.payload.to = pc[p].user.email
                 /\ LastEvent'.payload.data.token = pc[p].token
            /\ Moved(p, "forgot_emit", "idle") =>
                 /\ Len(events') = Len(events) + 1
                 /\ DOMAIN LastEvent'.payload = {"resetToken"}
                 /\ LastEvent'.payload.resetToken = pc[p].token
            /\ Moved(p, "forgot_update", "forgot_emit") =>
                 RowOf(users', pc[p].user.email)[1].resetToken = pc[p].token]_vars

\* ------------------------------------------------------------------- C8
\* C8: resetPassword for an existing user succeeds whatever the row holds
\* (no reset token, any reset token, verified or not); afterwards the
\* stored hash matches the new password and no other, and the row's other
\* fields, the other rows and the events are as before.
C8_ResetPassword ==
    [][SingleStep("resetPassword") =>
        LET before == FindUniqueUser(ret'.args.email)
            after == RowOf(users', ret'.args.email) IN
        before # <<>> =>
            /\ ret'.kind = "ok"
            /\ ret'.message = "Password Reset successfully."
            /\ \A password \in Passwords :
                   Verify(after[1].passwordhash, password)
                       <=> password = ret'.args.newPassword
            /\ after[1] = [before[1] EXCEPT
                              !.passwordhash = after[1].passwordhash]
            /\ Len(users') = Len(users)
            /\ \A i \in DOMAIN users :
                   users[i].email # ret'.args.email => users'[i] = users[i]
            /\ events' = events]_vars

\* C8 witness: a user for whom forgotPassword never ran (no reset token,
\* no 'send-reset-token' event) has a new password that differs from the
\* one registered.
C8_Witness ==
    /\ ret.op = "resetPassword"
    /\ ret.kind = "ok"
    /\ \A i \in DOMAIN events : events[i].name # "send-reset-token"
    /\ \A p \in Procs : pc[p].at = "idle"
    /\ LET user == FindUniqueUser(ret.args.email) IN
       /\ user[1].resetToken = NULL
       /\ user[1].passwordhash = Hash(ret.args.newPassword)
       /\ ret.args.newPassword \notin RegisterPasswords

\* ------------------------------------------------------------------ C10
\* C10 (as claimed): once no login of a user is in flight, the token
\* stored on the user is the token of the last 'send-verification' event
\* emitted for that user.
C10_LastSentIsStored_Claimed ==
    \A email \in Emails :
        LET sent == VerificationEvents(email) IN
        (~LoginInFlight(email) /\ sent # <<>>) =>
            FindUniqueUser(email)[1].token = sent[Len(sent)].payload.data.token

\* C10 (amended): once no login of a user is in flight, the token stored
\* on the user is the token of one of the 'send-verification' events
\* emitted for that user (the one of the login that wrote last), and no
\* token is stored while none was sent.
C10_StoredWasSent ==
    \A email \in Emails :
        LET sent == VerificationEvents(email)
            user == FindUniqueUser(email) IN
        (~LoginInFlight(email) /\ user # <<>>) =>
            IF user[1].token = NULL
            THEN sent = <<>>
            ELSE \E i \in DOMAIN sent :
                     sent[i].payload.data.token = user[1].token

\* C10 witness: two logins of one user have interleaved and ended; the
\* stored token is the one sent first, not the one sent last.
C10_Witness ==
    \E email \in Emails :
        LET sent == VerificationEvents(email) IN
        /\ ~LoginInFlight(email)
        /\ Len(sent) = 2
        /\ FindUniqueUser(email)[1].token = sent[1].payload.data.token
        /\ FindUniqueUser(email)[1].token # sent[2].payload.data.token

\* ------------------------------------------------------------------- C3
\* The rows of a Farm collection a user's listing returns.
FarmsOf(rows, userid) == {f \in rows : f.farmerId = userid}

ScopedFarmOps == {"getById", "updateFarm", "deleteFarm"}

\* A scoped request in this step names a farm that another user owns.
ForeignFarm ==
    /\ \E op \in ScopedFarmOps : SingleStep(op)
    /\ \E f \in farms : /\ f.id = ret'.args.farmid
                        /\ f.farmerId # ret'.args.userid

\* A scoped request in this step names an id no farm has.
MissingFarm ==
    /\ \E op \in ScopedFarmOps : SingleStep(op)
    /\ \A f \in farms : f.id # ret'.args.farmid

\* C3 (as claimed): getById, updateFarm and deleteFarm by a user on a farm
\* of another user fail, return no farm data, leave every farm as it was
\* (so the owner still lists it), and getById fails with NotFound, as it
\* is claimed to for an id that does not exist.
C3_ForeignFarm_Claimed ==
    [][ForeignFarm =>
        /\ ret'.kind # "ok"
        /\ ret'.data = <<>>
        /\ farms' = farms
        /\ ret'.op = "getById" => ret'.kind = "NotFound"]_vars

\* C3, what the code does hold to: the three requests fail on another
\* user's farm exactly as on an id that does not exist, with
\* InternalServerError (getById raises NotFound inside, its catch block
\* replaces it), return no data and leave every farm as it was.
C3_ForeignFarm_AsCoded ==
    [][(ForeignFarm \/ MissingFarm) =>
        /\ ret'.kind = "InternalServerError"
        /\ ret'.statusCode = 500
        /\ ret'.message =
             CASE ret'.op = "getById" -> "Farm could not be retrieved"
               [] ret'.op = "updateFarm" -> "Farm could not be updated."
               [] ret'.op = "deleteFarm" -> "Farm could not be deleted."
        /\ ret'.thrown = IF ret'.op = "getById" THEN "NotFound" ELSE "P2025"
        /\ ret'.data = <<>>
        /\ farms' = farms
        /\ \A u \in DOMAIN users : FarmsOf(farms', u) = FarmsOf(farms, u)]_vars

\* ------------------------------------------------------------------- C9
\* C9 (as claimed): between createFarm's two writes (where a stop or a
\* failed link leaves the database) the new farm is not returned by the
\* creator's listing nor by the creator's getById; after both writes it is
\* returned by the creator's listing and by no other user's.
C9_Orphan_Claimed ==
    /\ [](\A p \in Procs :
            pc[p].at = "createFarm_link" =>
                \A f \in farms :
                    f.id = pc[p].newFarm.id =>
                        /\ f \notin FindManyFarms(pc[p].userid)
                        /\ FindUniqueFarm(pc[p].userid, f.id) = {})
    /\ [][\A p \in Procs :
            (Moved(p, "createFarm_link", "idle") /\ ret'.kind = "ok") =>
                \E f \in farms' :
                    /\ f.id = pc[p].newFarm.id
                    /\ \A u \in DOMAIN users :
                           f \in FarmsOf(farms', u) <=> u = pc[p].userid]_vars

\* C9 (amended): the first write stores the farm with farmerId = userid,
\* so from then on, whether the link is written, fails or never runs, the
\* farm (while its owner has not deleted it) is returned by the creator's
\* listing and getById and by no other user's listing; the link write and
\* its failure change no farm row.
C9_CreateFarm ==
    /\ [](\A p \in Procs :
            pc[p].at = "createFarm_link" =>
                \A f \in farms :
                    f.id = pc[p].newFarm.id =>
                        /\ f \in FindManyFarms(pc[p].userid)
                        /\ FindUniqueFarm(pc[p].userid, f.id) = {f}
                        /\ \A u \in DOMAIN users \ {pc[p].userid} :
                               f \notin FindManyFarms(u))
    /\ [][\A p \in Procs :
            /\ Moved(p, "idle", "createFarm_link") =>
                 /\ farms' = farms \cup {pc'[p].newFarm}
                 /\ pc'[p].newFarm \notin farms
                 /\ \A u \in DOMAIN users :
                        pc'[p].newFarm \in FarmsOf(farms', u)
                            <=> u = pc'[p].userid
            /\ Moved(p, "createFarm_link", "idle") =>
                 /\ ret'.op = "createFarm"
                 /\ farms' = farms
                 /\ ret'.kind = "ok" =>
                      \E f \in farms' :
                          /\ f.id = pc[p].newFarm.id
                          /\ ret'.data = <<pc[p].newFarm>>
                          /\ \A u \in DOMAIN users :
                                 f \in FarmsOf(farms', u)
                                     <=> u = pc[p].userid]_vars

\* C9 witness: the only createFarm ever received has failed at its link
\* write; its farm is stored, its creator lists it, and a second user
\* exists who does not.
C9_Witness ==
    /\ ret.op = "createFarm"
    /\ ret.kind = "InternalServerError"
    /\ ret.thrown = "PrismaClientError"
    /\ nextFarmId = 2
    /\ Len(users) = 2
    /\ \E f \in farms :
          /\ f.id = 1
          /\ f \in FindManyFarms(ret.args.userid)
          /\ \A u \in DOMAIN users \ {ret.args.userid} :
                 f \notin FindManyFarms(u)

====
